---- MODULE Spec2Model ----
(***************************************************************************)
(* Legacy Bitcoin transaction wire codec (src/src/lib.rs): CompactSize,    *)
(* Txid, OutPoint, Script, TransactionInput and BitcoinTransaction.        *)
(*                                                                         *)
(* Unsigned integers of the program (u16, u32, u64, usize) are numerals in *)
(* base 256, most significant digit first, of the type's width in bytes:   *)
(* the u32 value 1 is <<0, 0, 0, 1>>.  The numerals keep the full width of *)
(* the Rust types, which the integers of the model checker do not have.    *)
(* Buffer lengths and offsets that the code bounds by the length of a      *)
(* buffer are plain naturals.  usize is 64 bits wide (a 64-bit target).    *)
(***************************************************************************)
EXTENDS Integers, Sequences, FiniteSets, TLC

\* ------------------------------------------------------------------------
\* Bounds of the explored inputs
\* ------------------------------------------------------------------------
MaxScriptLen == 2      \* scripts of every length up to this one
MaxInputs    == 2      \* transactions with up to this many inputs
MaxRawLen    == 2      \* every raw buffer over RawBytes up to this length
MaxPayload   == 2      \* payload bytes following a hand-made length prefix
MaxCut       == 5      \* bytes removed from the end of an encoding
MaxSuffixLen == 2      \* bytes appended after a decoded prefix

\* ------------------------------------------------------------------------
\* Sequences and numerals
\* ------------------------------------------------------------------------
Run(b, n) == [i \in 1..n |-> b]

Reverse(s) == [i \in 1..Len(s) |-> s[Len(s) + 1 - i]]

\* bytes[i] of Rust, which counts from 0
At(s, i) == s[i + 1]

\* bytes[from..to] of Rust (to excluded), for from <= to <= len
Slice(s, from, to) == SubSeq(s, from + 1, to)

\* bytes[from..] of Rust
SliceFrom(s, from) == SubSeq(s, from + 1, Len(s))

RECURSIVE SeqsUpTo(_, _)
SeqsUpTo(S, n) ==
    IF n = 0 THEN {<<>>}
    ELSE LET shorter == SeqsUpTo(S, n - 1)
         IN  shorter \cup {Append(s, b) : s \in {t \in shorter : Len(t) = n - 1}, b \in S}

\* the w-digit numeral of the natural n (n < 2^31)
RECURSIVE Num(_, _)
Num(n, w) == IF w = 0 THEN <<>> ELSE Append(Num(n \div 256, w - 1), n % 256)

\* a <= b for numerals of equal width
RECURSIVE LeNum(_, _)
LeNum(a, b) ==
    IF Len(a) = 0 THEN TRUE
    ELSE IF a[1] # b[1] THEN a[1] < b[1]
    ELSE LeNum(Tail(a), Tail(b))

LtNum(a, b) == ~LeNum(b, a)

\* x as uN for a wider N: zero extension
Widen(x, w) == Run(0, w - Len(x)) \o x

\* x as uN for a narrower N: the low-order digits
Narrow(x, w) == SubSeq(x, Len(x) - w + 1, Len(x))

\* the natural a numeral stands for; used only below 2^31
RECURSIVE ToNat(_)
ToNat(x) == IF Len(x) = 0 THEN 0 ELSE ToNat(SubSeq(x, 1, Len(x) - 1)) * 256 + x[Len(x)]

\* uN::to_le_bytes and uN::from_le_bytes
to_le_bytes(x) == Reverse(x)
from_le_bytes(b) == Reverse(b)

\* a + b on numerals of equal width: the wrapped sum and the carry out
RECURSIVE AddNum(_, _, _)
AddNum(a, b, carry) ==
    IF Len(a) = 0 THEN [value |-> <<>>, overflow |-> carry = 1]
    ELSE LET n    == Len(a)
             d    == a[n] + b[n] + carry
             rest == AddNum(SubSeq(a, 1, n - 1), SubSeq(b, 1, n - 1), d \div 256)
         IN  [value |-> Append(rest.value, d % 256), overflow |-> rest.overflow]

\* the width of usize in bytes
UsizeBytes == 8

\* ------------------------------------------------------------------------
\* Results: Result<(T, usize), BitcoinError>, or a panic of the thread
\* ------------------------------------------------------------------------
NoValue == [none |-> TRUE]
NoOrigin == [kind |-> "none", value |-> NoValue]

InsufficientBytes == "InsufficientBytes"
InvalidFormat == "InvalidFormat"
BitcoinError == {InsufficientBytes, InvalidFormat}

Ok(x, n) == [tag |-> "Ok", value |-> x, consumed |-> n, err |-> "-"]
Err(e)   == [tag |-> "Err", value |-> NoValue, consumed |-> 0, err |-> e]
Panic(m) == [tag |-> "Panic", value |-> NoValue, consumed |-> 0, err |-> m]

\* ------------------------------------------------------------------------
\* State
\* ------------------------------------------------------------------------
VARIABLES
    origin,           \* the value the buffer encodes, [kind, value], or NoValue
    framed,           \* how a received buffer was framed: "", "input" or "tx"
    cut,              \* how many bytes were removed from the end of the encoding
    bytes,            \* the buffer handed to from_bytes
    text,             \* the text handed to Txid's Deserialize, or NoValue
    decoder,          \* the type whose from_bytes runs or ran
    pc,               \* "idle", "ready", "loop" (inside BitcoinTransaction::from_bytes), "done"
    result,           \* what the call returned
    prev,             \* the result of the call before the buffer was resumed
    version,          \* locals of BitcoinTransaction::from_bytes
    input_count,
    consumed1,
    inputs,
    offset

vars == <<origin, framed, cut, bytes, text, decoder, pc, result, prev,
          version, input_count, consumed1, inputs, offset>>

\* ------------------------------------------------------------------------
\* CompactSize
\* ------------------------------------------------------------------------
CompactSize_new(value) == [value |-> value]

U64(n) == Num(n, 8)
U16Max == <<0, 0, 0, 0, 0, 0, 255, 255>>
U32Max == <<0, 0, 0, 0, 255, 255, 255, 255>>
U64Max == <<255, 255, 255, 255, 255, 255, 255, 255>>

InRange(v, lo, hi) == LeNum(lo, v) /\ LeNum(v, hi)

\* CompactSize::to_bytes with the first tier one value too wide (0..=0xFD)
CompactSize_to_bytes_wide_tier(self) ==
    IF InRange(self.value, U64(0), U64(253)) THEN <<Narrow(self.value, 1)[1]>>
    ELSE IF InRange(self.value, U64(254), U16Max)
         THEN <<253>> \o to_le_bytes(Narrow(self.value, 2))
    ELSE IF InRange(self.value, U64(65536), U32Max)
         THEN <<254>> \o to_le_bytes(Narrow(self.value, 4))
    ELSE <<255>> \o to_le_bytes(self.value)

CompactSize_to_bytes(self) ==
    IF InRange(self.value, U64(0), U64(252)) THEN <<Narrow(self.value, 1)[1]>>
    ELSE IF InRange(self.value, U64(253), U16Max)
         THEN <<253>> \o to_le_bytes(Narrow(self.value, 2))
    ELSE IF InRange(self.value, U64(65536), U32Max)
         THEN <<254>> \o to_le_bytes(Narrow(self.value, 4))
    ELSE <<255>> \o to_le_bytes(self.value)

\* CompactSize::from_bytes that refuses an encoding wider than the value needs
CompactSize_from_bytes_strict(b) ==
    IF Len(b) = 0 THEN Err(InsufficientBytes)
    ELSE IF At(b, 0) <= 252 THEN Ok(CompactSize_new(Widen(<<At(b, 0)>>, 8)), 1)
    ELSE IF At(b, 0) = 253
         THEN IF Len(b) < 3 THEN Err(InsufficientBytes)
              ELSE IF At(b, 2) = 0 /\ At(b, 1) < 253 THEN Err(InvalidFormat)
              ELSE Ok(CompactSize_new(Widen(from_le_bytes(<<At(b, 1), At(b, 2)>>), 8)), 3)
    ELSE IF At(b, 0) = 254
         THEN IF Len(b) < 5 THEN Err(InsufficientBytes)
              ELSE IF At(b, 3) = 0 /\ At(b, 4) = 0 THEN Err(InvalidFormat)
              ELSE Ok(CompactSize_new(
                        Widen(from_le_bytes(<<At(b, 1), At(b, 2), At(b, 3), At(b, 4)>>), 8)), 5)
    ELSE IF Len(b) < 9 THEN Err(InsufficientBytes)
         ELSE IF At(b, 5) = 0 /\ At(b, 6) = 0 /\ At(b, 7) = 0 /\ At(b, 8) = 0
              THEN Err(InvalidFormat)
         ELSE Ok(CompactSize_new(from_le_bytes(
                    <<At(b, 1), At(b, 2), At(b, 3), At(b, 4),
                      At(b, 5), At(b, 6), At(b, 7), At(b, 8)>>)), 9)

CompactSize_from_bytes(b) ==
    IF Len(b) = 0 THEN Err(InsufficientBytes)
    ELSE IF At(b, 0) <= 252 THEN Ok(CompactSize_new(Widen(<<At(b, 0)>>, 8)), 1)
    ELSE IF At(b, 0) = 253
         THEN IF Len(b) < 3 THEN Err(InsufficientBytes)
              ELSE Ok(CompactSize_new(Widen(from_le_bytes(<<At(b, 1), At(b, 2)>>), 8)), 3)
    ELSE IF At(b, 0) = 254
         THEN IF Len(b) < 5 THEN Err(InsufficientBytes)
              ELSE Ok(CompactSize_new(
                        Widen(from_le_bytes(<<At(b, 1), At(b, 2), At(b, 3), At(b, 4)>>), 8)), 5)
    ELSE IF Len(b) < 9 THEN Err(InsufficientBytes)
         ELSE Ok(CompactSize_new(from_le_bytes(
                    <<At(b, 1), At(b, 2), At(b, 3), At(b, 4),
                      At(b, 5), At(b, 6), At(b, 7), At(b, 8)>>)), 9)

\* ------------------------------------------------------------------------
\* Txid and its text form
\* ------------------------------------------------------------------------
Txid(arr) == [raw |-> arr]

HexDigits == <<"0", "1", "2", "3", "4", "5", "6", "7",
               "8", "9", "a", "b", "c", "d", "e", "f">>
UpperHexDigits == <<"0", "1", "2", "3", "4", "5", "6", "7",
                    "8", "9", "A", "B", "C", "D", "E", "F">>

\* hex::encode: two lowercase digits per byte, high nibble first
RECURSIVE hex_encode(_)
hex_encode(data) ==
    IF Len(data) = 0 THEN <<>>
    ELSE <<HexDigits[(data[1] \div 16) + 1], HexDigits[(data[1] % 16) + 1]>>
         \o hex_encode(Tail(data))

IsHexDigit(c) == \E i \in 1..16 : HexDigits[i] = c \/ UpperHexDigits[i] = c

HexVal(c) == (CHOOSE i \in 1..16 : HexDigits[i] = c \/ UpperHexDigits[i] = c) - 1

RECURSIVE HexPairs(_)
HexPairs(s) ==
    IF Len(s) = 0 THEN <<>>
    ELSE <<HexVal(s[1]) * 16 + HexVal(s[2])>> \o HexPairs(SubSeq(s, 3, Len(s)))

SerdeOk(v) == [tag |-> "Ok", value |-> v, custom |-> "-"]
SerdeErr(msg) == [tag |-> "Err", value |-> NoValue, custom |-> msg]

\* hex::decode: an odd number of digits or a character that is no hex digit is an error
hex_decode(s) ==
    IF Len(s) % 2 # 0 THEN SerdeErr("Odd number of digits")
    ELSE IF \E i \in 1..Len(s) : ~IsHexDigit(s[i]) THEN SerdeErr("Invalid character")
    ELSE SerdeOk(HexPairs(s))

Txid_serialize(self) == hex_encode(self.raw)

\* Deserialize for Txid without the test of the decoded length
Txid_deserialize_any_length(s) ==
    LET decoded == hex_decode(s)
    IN  IF decoded.tag # "Ok" THEN decoded
        ELSE SerdeOk(Txid(decoded.value))

Txid_deserialize(s) ==
    LET decoded == hex_decode(s)
    IN  IF decoded.tag # "Ok" THEN decoded
        ELSE IF Len(decoded.value) # 32 THEN SerdeErr("Txid must be 32 bytes")
        ELSE SerdeOk(Txid(decoded.value))

\* ------------------------------------------------------------------------
\* OutPoint
\* ------------------------------------------------------------------------
OutPoint_new(txid, vout) == [txid |-> Txid(txid), vout |-> vout]

\* OutPoint::to_bytes with vout in big-endian order
OutPoint_to_bytes_big_endian(self) == self.txid.raw \o self.vout

OutPoint_to_bytes(self) == self.txid.raw \o to_le_bytes(self.vout)

\* OutPoint::from_bytes with the length test one byte short: bytes[35] is then
\* read from a buffer of 35 bytes, which panics
OutPoint_from_bytes_off_by_one(b) ==
    IF Len(b) < 35 THEN Err(InsufficientBytes)
    ELSE IF Len(b) < 36 THEN Panic("index out of bounds")
    ELSE LET txid == Slice(b, 0, 32)
             vout == from_le_bytes(<<At(b, 32), At(b, 33), At(b, 34), At(b, 35)>>)
         IN  Ok(OutPoint_new(txid, vout), 36)

OutPoint_from_bytes(b) ==
    IF Len(b) < 36 THEN Err(InsufficientBytes)
    ELSE LET txid == Slice(b, 0, 32)
             vout == from_le_bytes(<<At(b, 32), At(b, 33), At(b, 34), At(b, 35)>>)
         IN  Ok(OutPoint_new(txid, vout), 36)

\* ------------------------------------------------------------------------
\* Script
\* ------------------------------------------------------------------------
Script_new(b) == [bytes |-> b]

Script_to_bytes(self) ==
    CompactSize_to_bytes(CompactSize_new(U64(Len(self.bytes)))) \o self.bytes

\* Script::from_bytes that takes the rest of the buffer as the script
Script_from_bytes_greedy(b, overflow_checks) ==
    LET len_prefix == CompactSize_from_bytes(b)
    IN  IF len_prefix.tag # "Ok" THEN len_prefix
        ELSE LET consumed == len_prefix.consumed
                 len      == Narrow(len_prefix.value.value, UsizeBytes)
                 sum      == AddNum(Num(consumed, UsizeBytes), len, 0)
                 end      == sum.value
             IN  IF sum.overflow /\ overflow_checks
                     THEN Panic("attempt to add with overflow")
                 ELSE IF LtNum(Num(Len(b), UsizeBytes), end) THEN Err(InsufficientBytes)
                 ELSE IF ToNat(end) < consumed
                     THEN Panic("slice index starts after its end")
                 ELSE Ok(Script_new(SliceFrom(b, consumed)), Len(b))

\* consumed + len overflows usize for a declared length near 2^64: a build with
\* overflow checks (overflow_checks, the debug profile) panics at the addition, a
\* build without them (the release profile) wraps, gets end < consumed, passes the
\* length test and panics at bytes[consumed..end].
Script_from_bytes(b, overflow_checks) ==
    LET len_prefix == CompactSize_from_bytes(b)
    IN  IF len_prefix.tag # "Ok" THEN len_prefix
        ELSE LET consumed == len_prefix.consumed
                 len      == Narrow(len_prefix.value.value, UsizeBytes)
                 sum      == AddNum(Num(consumed, UsizeBytes), len, 0)
                 end      == sum.value
             IN  IF sum.overflow /\ overflow_checks
                     THEN Panic("attempt to add with overflow")
                 ELSE IF LtNum(Num(Len(b), UsizeBytes), end) THEN Err(InsufficientBytes)
                 ELSE IF ToNat(end) < consumed
                     THEN Panic("slice index starts after its end")
                 ELSE Ok(Script_new(Slice(b, consumed, ToNat(end))), ToNat(end))

\* ------------------------------------------------------------------------
\* TransactionInput
\* ------------------------------------------------------------------------
TransactionInput_new(previous_output, script_sig, sequence) ==
    [previous_output |-> previous_output, script_sig |-> script_sig, sequence |-> sequence]

TransactionInput_to_bytes(self) ==
    OutPoint_to_bytes(self.previous_output)
        \o Script_to_bytes(self.script_sig)
        \o to_le_bytes(self.sequence)

TransactionInput_from_bytes(b, overflow_checks) ==
    LET r1 == OutPoint_from_bytes(b)
    IN  IF r1.tag # "Ok" THEN r1
        ELSE LET r2 == Script_from_bytes(SliceFrom(b, r1.consumed), overflow_checks)
             IN  IF r2.tag # "Ok" THEN r2
                 ELSE LET at == r1.consumed + r2.consumed
                      IN  IF Len(b) < at + 4 THEN Err(InsufficientBytes)
                          ELSE Ok(TransactionInput_new(r1.value, r2.value,
                                      from_le_bytes(<<At(b, at), At(b, at + 1),
                                                      At(b, at + 2), At(b, at + 3)>>)),
                                  at + 4)

\* ------------------------------------------------------------------------
\* BitcoinTransaction
\* ------------------------------------------------------------------------
BitcoinTransaction_new(v, ins, lock_time) ==
    [version |-> v, inputs |-> ins, lock_time |-> lock_time]

RECURSIVE ExtendAll(_)
ExtendAll(ins) ==
    IF Len(ins) = 0 THEN <<>>
    ELSE TransactionInput_to_bytes(ins[1]) \o ExtendAll(Tail(ins))

\* BitcoinTransaction::to_bytes that leaves the input count out
BitcoinTransaction_to_bytes_no_count(self) ==
    to_le_bytes(self.version)
        \o ExtendAll(self.inputs)
        \o to_le_bytes(self.lock_time)

BitcoinTransaction_to_bytes(self) ==
    to_le_bytes(self.version)
        \o CompactSize_to_bytes(CompactSize_new(U64(Len(self.inputs))))
        \o ExtendAll(self.inputs)
        \o to_le_bytes(self.lock_time)

\* ------------------------------------------------------------------------
\* The values and buffers a caller hands to the codec
\* ------------------------------------------------------------------------
Kinds == {"CompactSize", "OutPoint", "Script", "TransactionInput"}

U32(n) == Num(n, 4)

U64Values ==
    {U64(0), U64(1), U64(252), U64(253), U64(254), U64(255), U64(256), U64(513),
     U16Max, U64(65536), <<0, 0, 0, 0, 1, 2, 3, 4>>, U32Max,
     <<0, 0, 0, 1, 0, 0, 0, 0>>, <<1, 2, 3, 4, 5, 6, 7, 8>>, U64Max}

U32Values == {U32(1), <<1, 2, 3, 4>>}

RampTxid == [i \in 1..32 |-> (i * 37) % 256]
Txids == {Run(0, 32), RampTxid}

OutPoints == {OutPoint_new(t, v) : t \in Txids, v \in U32Values}

ScriptBytes == {1, 255}
LongScripts == {Run(171, 252), Run(171, 253)}
Scripts == {Script_new(b) : b \in SeqsUpTo(ScriptBytes, MaxScriptLen) \cup LongScripts}

Sequences == {<<255, 255, 255, 255>>, <<1, 2, 3, 4>>}

TransactionInputs ==
    {TransactionInput_new(o, s, q) : o \in OutPoints, s \in Scripts, q \in Sequences}

InputPool ==
    {TransactionInput_new(OutPoint_new(RampTxid, <<1, 2, 3, 4>>),
                          Script_new(<<1, 255>>), <<255, 255, 255, 255>>),
     TransactionInput_new(OutPoint_new(Run(0, 32), U32(1)),
                          Script_new(<<>>), <<1, 2, 3, 4>>),
     TransactionInput_new(OutPoint_new(Run(0, 32), U32(1)),
                          Script_new(Run(171, 253)), <<1, 2, 3, 4>>)}

Transactions ==
    {BitcoinTransaction_new(v, ins, l) :
        v \in {U32(1), <<1, 2, 3, 4>>}, ins \in SeqsUpTo(InputPool, MaxInputs),
        l \in {U32(0), <<1, 2, 3, 4>>}}

Values(kind) ==
    CASE kind = "CompactSize"        -> {CompactSize_new(v) : v \in U64Values}
      [] kind = "OutPoint"           -> OutPoints
      [] kind = "Script"             -> Scripts
      [] kind = "TransactionInput"   -> TransactionInputs
      [] kind = "BitcoinTransaction" -> Transactions

ToBytes(kind, x) ==
    CASE kind = "CompactSize"        -> CompactSize_to_bytes(x)
      [] kind = "OutPoint"           -> OutPoint_to_bytes(x)
      [] kind = "Script"             -> Script_to_bytes(x)
      [] kind = "TransactionInput"   -> TransactionInput_to_bytes(x)
      [] kind = "BitcoinTransaction" -> BitcoinTransaction_to_bytes(x)

FromBytes(kind, b, overflow_checks) ==
    CASE kind = "CompactSize"      -> CompactSize_from_bytes(b)
      [] kind = "OutPoint"         -> OutPoint_from_bytes(b)
      [] kind = "Script"           -> Script_from_bytes(b, overflow_checks)
      [] kind = "TransactionInput" -> TransactionInput_from_bytes(b, overflow_checks)

\* buffers that are no encoding of a value: every short buffer over RawBytes, and
\* hand-made length prefixes of each tier followed by a short payload
RawBytes == {0, 1, 252, 253, 254, 255}

DeclaredLens ==
    {U64(0), U64(2), U64(5),
     <<255, 255, 255, 255, 255, 255, 255, 246>>,
     <<255, 255, 255, 255, 255, 255, 255, 247>>, U64Max}

HandMadePrefixes ==
    UNION {{<<253>> \o to_le_bytes(Narrow(v, 2)),
            <<254>> \o to_le_bytes(Narrow(v, 4)),
            <<255>> \o to_le_bytes(v)} : v \in DeclaredLens}

RawBuffers ==
    SeqsUpTo(RawBytes, MaxRawLen)
        \cup {p \o Run(7, n) : p \in HandMadePrefixes, n \in 0..MaxPayload}

Tails == {<<9, 9, 9>>, <<9, 9, 9, 9>>}

Counts == {<<1>>, <<2>>, <<253, 1, 0>>, <<255>> \o Run(255, 8)}

Suffixes == {Run(255, n) : n \in 0..MaxSuffixLen}

\* ------------------------------------------------------------------------
\* Initial state and the caller's steps
\* ------------------------------------------------------------------------
Init ==
    /\ origin = NoOrigin
    /\ framed = ""
    /\ cut = 0
    /\ bytes = <<>>
    /\ text = <<>>
    /\ decoder = ""
    /\ pc = "idle"
    /\ result = NoValue
    /\ prev = NoValue
    /\ version = <<>>
    /\ input_count = NoValue
    /\ consumed1 = 0
    /\ inputs = <<>>
    /\ offset = 0

locals == <<version, input_count, consumed1, inputs, offset>>

\* to_bytes of a value of one of the five types
Encode ==
    /\ pc = "idle"
    /\ \E kind \in Kinds \cup {"BitcoinTransaction"} : \E x \in Values(kind) :
          /\ origin' = [kind |-> kind, value |-> x]
          /\ bytes' = ToBytes(kind, x)
    /\ pc' = "ready"
    /\ UNCHANGED <<framed, cut, text, decoder, result, prev, locals>>

\* a buffer from elsewhere
Receive ==
    /\ pc = "idle"
    /\ \E b \in RawBuffers : bytes' = b
    /\ framed' = "raw"
    /\ pc' = "ready"
    /\ UNCHANGED <<origin, cut, text, decoder, result, prev, locals>>

\* the last byte of an encoding is lost
Truncate ==
    /\ pc = "ready" /\ prev = NoValue
    /\ origin.kind \in Kinds \cup {"BitcoinTransaction"}
    /\ cut < MaxCut /\ Len(bytes) > 0
    /\ bytes' = SubSeq(bytes, 1, Len(bytes) - 1)
    /\ cut' = cut + 1
    /\ UNCHANGED <<origin, framed, text, decoder, pc, result, prev, locals>>

\* a received buffer stands where the script of an input is expected
WrapInput ==
    /\ pc = "ready" /\ prev = NoValue
    /\ framed = "raw"
    /\ \E tail \in Tails :
          bytes' = OutPoint_to_bytes(OutPoint_new(RampTxid, U32(1))) \o bytes \o tail
    /\ framed' = "input"
    /\ UNCHANGED <<origin, cut, text, decoder, pc, result, prev, locals>>

\* an input, well-formed or not, stands in a transaction whose count is anything
WrapTx ==
    /\ pc = "ready" /\ prev = NoValue
    /\ framed = "input" \/ (origin.kind = "TransactionInput" /\ cut = 0)
    /\ \E count \in Counts : \E tail \in Tails :
          bytes' = to_le_bytes(U32(1)) \o count \o bytes \o tail
    /\ framed' = "tx"
    /\ origin' = NoOrigin
    /\ UNCHANGED <<cut, text, decoder, pc, result, prev, locals>>

\* CompactSize::, OutPoint::, Script:: and TransactionInput::from_bytes
Decode ==
    /\ pc = "ready"
    /\ origin.kind # "Txid"
    /\ \E kind \in Kinds : \E overflow_checks \in BOOLEAN :
          /\ decoder \in {"", kind}
          /\ decoder' = kind
          /\ result' = FromBytes(kind, bytes, overflow_checks)
    /\ pc' = "done"
    /\ UNCHANGED <<origin, framed, cut, bytes, text, prev, locals>>

\* BitcoinTransaction::from_bytes up to the loop
Tx_begin ==
    /\ pc = "ready"
    /\ origin.kind # "Txid"
    /\ decoder \in {"", "BitcoinTransaction"}
    /\ decoder' = "BitcoinTransaction"
    /\ IF Len(bytes) < 4
       THEN /\ result' = Err(InsufficientBytes)
            /\ pc' = "done"
            /\ UNCHANGED locals
       ELSE LET r == CompactSize_from_bytes(SliceFrom(bytes, 4))
            IN  IF r.tag # "Ok"
                THEN /\ result' = r
                     /\ pc' = "done"
                     /\ version' = from_le_bytes(
                            <<At(bytes, 0), At(bytes, 1), At(bytes, 2), At(bytes, 3)>>)
                     /\ UNCHANGED <<input_count, consumed1, inputs, offset>>
                ELSE /\ version' = from_le_bytes(
                            <<At(bytes, 0), At(bytes, 1), At(bytes, 2), At(bytes, 3)>>)
                     /\ input_count' = r.value
                     /\ consumed1' = r.consumed
                     /\ inputs' = <<>>
                     /\ offset' = 4 + r.consumed
                     /\ pc' = "loop"
                     /\ UNCHANGED result
    /\ UNCHANGED <<origin, framed, cut, bytes, text, prev>>

\* whether the range 0..input_count.value has another element
MoreInputs == LtNum(U64(Len(inputs)), input_count.value)

\* the loop with the running offset never advanced
Tx_loop_stuck_offset ==
    /\ pc = "loop"
    /\ MoreInputs
    /\ \E overflow_checks \in BOOLEAN :
       LET r == TransactionInput_from_bytes(SliceFrom(bytes, offset), overflow_checks)
       IN  IF r.tag # "Ok"
           THEN /\ result' = r
                /\ pc' = "done"
                /\ UNCHANGED <<inputs, offset>>
           ELSE /\ inputs' = Append(inputs, r.value)
                /\ UNCHANGED <<result, pc, offset>>
    /\ UNCHANGED <<origin, framed, cut, bytes, text, decoder, prev,
                   version, input_count, consumed1>>

\* one turn of the loop over 0..input_count.value
Tx_loop ==
    /\ pc = "loop"
    /\ MoreInputs
    /\ \E overflow_checks \in BOOLEAN :
       LET r == TransactionInput_from_bytes(SliceFrom(bytes, offset), overflow_checks)
       IN  IF r.tag # "Ok"
           THEN /\ result' = r
                /\ pc' = "done"
                /\ UNCHANGED <<inputs, offset>>
           ELSE /\ inputs' = Append(inputs, r.value)
                /\ offset' = offset + r.consumed
                /\ UNCHANGED <<result, pc>>
    /\ UNCHANGED <<origin, framed, cut, bytes, text, decoder, prev,
                   version, input_count, consumed1>>

\* BitcoinTransaction::from_bytes after the loop
Tx_end ==
    /\ pc = "loop"
    /\ ~MoreInputs
    /\ result' =
          IF Len(bytes) < offset + 4 THEN Err(InsufficientBytes)
          ELSE Ok(BitcoinTransaction_new(version, inputs,
                      from_le_bytes(<<At(bytes, offset), At(bytes, offset + 1),
                                      At(bytes, offset + 2), At(bytes, offset + 3)>>)),
                  offset + 4)
    /\ pc' = "done"
    /\ UNCHANGED <<origin, framed, cut, bytes, text, decoder, prev, locals>>

\* the caller keeps the consumed prefix, other bytes follow it, and decodes again
Resume ==
    /\ pc = "done" /\ prev = NoValue
    /\ decoder # "Txid"
    /\ result.tag = "Ok"
    /\ \E s \in Suffixes : bytes' = Slice(bytes, 0, result.consumed) \o s
    /\ prev' = result
    /\ result' = NoValue
    /\ pc' = "ready"
    /\ version' = <<>> /\ input_count' = NoValue /\ consumed1' = 0
    /\ inputs' = <<>> /\ offset' = 0
    /\ UNCHANGED <<origin, framed, cut, text, decoder>>

\* Serialize for Txid
Serialize ==
    /\ pc = "idle"
    /\ \E t \in Txids :
          /\ origin' = [kind |-> "Txid", value |-> Txid(t)]
          /\ text' = Txid_serialize(Txid(t))
    /\ pc' = "ready"
    /\ UNCHANGED <<framed, cut, bytes, decoder, result, prev, locals>>

\* the text loses its last character
TruncateText ==
    /\ pc = "ready" /\ origin.kind = "Txid"
    /\ framed = ""
    /\ cut < MaxCut /\ Len(text) > 0
    /\ text' = SubSeq(text, 1, Len(text) - 1)
    /\ cut' = cut + 1
    /\ UNCHANGED <<origin, framed, bytes, decoder, pc, result, prev, locals>>

\* one character of the text is replaced, or a byte's two digits follow it
EditText ==
    /\ pc = "ready" /\ origin.kind = "Txid"
    /\ framed = "" /\ cut = 0
    /\ \/ \E i \in 1..Len(text) : \E c \in {"g", "F", " "} :
             text' = [text EXCEPT ![i] = c]
       \/ text' = text \o <<"0", "0">>
    /\ framed' = "edited"
    /\ UNCHANGED <<origin, cut, bytes, decoder, pc, result, prev, locals>>

\* Deserialize for Txid
Deserialize ==
    /\ pc = "ready" /\ origin.kind = "Txid"
    /\ decoder' = "Txid"
    /\ result' = Txid_deserialize(text)
    /\ pc' = "done"
    /\ UNCHANGED <<origin, framed, cut, bytes, text, prev, locals>>

Next ==
    \/ Encode
    \/ Receive
    \/ Truncate
    \/ WrapInput
    \/ WrapTx
    \/ Decode
    \/ Tx_begin
    \/ Tx_loop
    \/ Tx_end
    \/ Resume
    \/ Serialize
    \/ TruncateText
    \/ EditText
    \/ Deserialize

Spec == Init /\ [][Next]_vars

\* ------------------------------------------------------------------------
\* Properties
\* ------------------------------------------------------------------------
AllKinds == Kinds \cup {"BitcoinTransaction"}

\* the buffer is to_bytes of origin.value, untouched, and decoder is its type
DecodedOwnEncoding ==
    /\ pc = "done" /\ prev = NoValue
    /\ framed = "" /\ cut = 0
    /\ decoder \in AllKinds /\ origin.kind = decoder

\* C1: from_bytes(to_bytes(x)) returns x and the whole length of the encoding, for
\* every value x of each of the five types.
RoundTrip ==
    DecodedOwnEncoding => result = Ok(origin.value, Len(bytes))

RoundTripWitness ==
    /\ DecodedOwnEncoding
    /\ decoder = "BitcoinTransaction"
    /\ Len(origin.value.inputs) = 2
    /\ origin.value.inputs[2].script_sig.bytes = Run(171, 253)
    /\ result.tag = "Ok"

\* C2: CompactSize::to_bytes gives the shortest form: the value itself in one byte
\* up to 0xFC, 0xFD and 2 little-endian bytes up to 0xFFFF, 0xFE and 4 up to
\* 0xFFFFFFFF, 0xFF and 8 otherwise.
CanonicalVarInt ==
    (origin.kind = "CompactSize" /\ pc = "ready" /\ cut = 0 /\ prev = NoValue) =>
        LET v == origin.value.value
            zeros(n) == \A i \in 1..n : v[i] = 0
        IN  /\ (zeros(7) /\ v[8] <= 252) => bytes = <<v[8]>>
            /\ (zeros(6) /\ ~(zeros(7) /\ v[8] <= 252)) => bytes = <<253, v[8], v[7]>>
            /\ (zeros(4) /\ ~zeros(6)) => bytes = <<254, v[8], v[7], v[6], v[5]>>
            /\ ~zeros(4) => bytes = <<255, v[8], v[7], v[6], v[5], v[4], v[3], v[2], v[1]>>
            /\ v = U64(0) => bytes = <<0>>
            /\ v = U64(252) => bytes = <<252>>
            /\ v = U64(253) => bytes = <<253, 253, 0>>
            /\ v = U64(65536) => bytes = <<254, 0, 0, 1, 0>>
            /\ v = <<0, 0, 0, 1, 0, 0, 0, 0>> => bytes = <<255, 0, 0, 0, 0, 1, 0, 0, 0>>

CanonicalVarIntWitness ==
    /\ origin.kind = "CompactSize" /\ pc = "ready" /\ cut = 0 /\ prev = NoValue
    /\ origin.value.value = U64(253)
    /\ Len(bytes) = 3

\* C3: CompactSize::from_bytes looks at the first byte alone to choose the tier and
\* takes an encoding wider than the value needs: 0x00-0xFC gives (first byte, 1);
\* 0xFD, 0xFE, 0xFF with 3, 5, 9 bytes give the next 2, 4, 8 bytes little-endian
\* and 3, 5, 9; an empty or too short buffer gives InsufficientBytes.
VarIntDecode ==
    (decoder = "CompactSize" /\ pc = "done") =>
        LET b == bytes
            need == IF Len(b) = 0 THEN 1
                    ELSE IF b[1] <= 252 THEN 1
                    ELSE IF b[1] = 253 THEN 3
                    ELSE IF b[1] = 254 THEN 5 ELSE 9
        IN  /\ Len(b) < need => result = Err(InsufficientBytes)
            /\ (Len(b) >= need /\ need = 1) =>
                  result = Ok([value |-> <<0, 0, 0, 0, 0, 0, 0, b[1]>>], 1)
            /\ (Len(b) >= need /\ need = 3) =>
                  result = Ok([value |-> <<0, 0, 0, 0, 0, 0, b[3], b[2]>>], 3)
            /\ (Len(b) >= need /\ need = 5) =>
                  result = Ok([value |-> <<0, 0, 0, 0, b[5], b[4], b[3], b[2]>>], 5)
            /\ (Len(b) >= need /\ need = 9) =>
                  result = Ok([value |-> <<b[9], b[8], b[7], b[6], b[5], b[4], b[3], b[2]>>], 9)
            /\ b = <<254, 5, 0, 0, 0>> => result = Ok([value |-> U64(5)], 5)

VarIntDecodeWitness ==
    /\ decoder = "CompactSize" /\ pc = "done"
    /\ bytes = <<254, 5, 0, 0, 0>>
    /\ result.tag = "Ok"

\* C4: to_bytes(x) without its last byte does not decode: from_bytes of the type of
\* x fails with InsufficientBytes, for every value x of each of the five types.
TruncationDetected ==
    (/\ pc = "done" /\ prev = NoValue
     /\ framed = "" /\ cut = 1
     /\ decoder \in AllKinds /\ origin.kind = decoder)
        => result = Err(InsufficientBytes)

TruncationDetectedWitness ==
    /\ pc = "done" /\ prev = NoValue
    /\ framed = "" /\ cut = 1
    /\ decoder = "BitcoinTransaction" /\ origin.kind = decoder
    /\ Len(origin.value.inputs) = 2
    /\ Len(inputs) = 2
    /\ result = Err(InsufficientBytes)

\* whether consumed + L, as integers, is more than the length of the buffer
DeclaresMoreThan(consumed, L, length) ==
    LtNum(Num(length, 9), AddNum(Num(consumed, 9), Widen(L, 9), 0).value)

\* C5: Script::from_bytes fails with InsufficientBytes whenever the length prefix
\* decodes to a length L with prefix_consumed + L more than the length of the
\* buffer, for every L up to 2^64-1.
ScriptLengthClaim ==
    (decoder = "Script" /\ pc = "done") =>
        LET prefix == CompactSize_from_bytes(bytes)
        IN  (/\ prefix.tag = "Ok"
             /\ DeclaresMoreThan(prefix.consumed, prefix.value.value, Len(bytes)))
                => result = Err(InsufficientBytes)

EmptyTransaction ==
    [kind |-> "BitcoinTransaction",
     value |-> [version |-> <<0, 0, 0, 1>>, inputs |-> <<>>, lock_time |-> <<0, 0, 0, 0>>]]

\* C6 as amended: the transaction with version 1, no inputs and lock_time 0 encodes
\* to exactly [1,0,0,0, 0x00, 0,0,0,0], which is 9 bytes, and decoding that
\* encoding returns the identical transaction.
EmptyTransactionVector ==
    (origin = EmptyTransaction /\ framed = "" /\ cut = 0 /\ prev = NoValue) =>
        /\ bytes = <<1, 0, 0, 0, 0, 0, 0, 0, 0>>
        /\ Len(bytes) = 9
        /\ (pc = "done" /\ decoder = "BitcoinTransaction") =>
              result = Ok(origin.value, 9)

EmptyTransactionWitness ==
    /\ origin = EmptyTransaction /\ framed = "" /\ cut = 0 /\ prev = NoValue
    /\ pc = "done" /\ decoder = "BitcoinTransaction"
    /\ result.tag = "Ok"

\* C6 as the claim states it: the encoding is [1,0,0,0, 0x00, 0,0,0,0] and is 10
\* bytes long, and decodes back to the identical transaction.
EmptyTransactionTenBytes ==
    (origin = EmptyTransaction /\ framed = "" /\ cut = 0 /\ prev = NoValue) =>
        /\ bytes = <<1, 0, 0, 0, 0, 0, 0, 0, 0>>
        /\ Len(bytes) = 10
        /\ (pc = "done" /\ decoder = "BitcoinTransaction") =>
              result.tag = "Ok" /\ result.value = origin.value

HexChars ==
    {"0", "1", "2", "3", "4", "5", "6", "7", "8", "9",
     "a", "b", "c", "d", "e", "f", "A", "B", "C", "D", "E", "F"}

\* the text is no valid hex, or it is the hex of other than 32 bytes
MalformedTxidText ==
    \/ Len(text) % 2 # 0
    \/ \E i \in 1..Len(text) : text[i] \notin HexChars
    \/ Len(text) # 64

PrefixWidth(first) ==
    IF first <= 252 THEN 1 ELSE IF first = 253 THEN 3 ELSE IF first = 254 THEN 5 ELSE 9

\* where on the wire the k-th decoded input ends (k = 0: where the count ends):
\* 4 + the count's width + for each input 36 + its script's prefix and bytes + 4
RECURSIVE InputEnd(_)
InputEnd(k) ==
    IF k = 0 THEN 4 + PrefixWidth(At(bytes, 4))
    ELSE LET p == InputEnd(k - 1)
         IN  p + 36 + PrefixWidth(At(bytes, p + 36)) + Len(inputs[k].script_sig.bytes) + 4

\* the j-th decoded input is what the wire holds where the one before it ended
InputOnWire(j) ==
    LET p  == InputEnd(j - 1)
        in == inputs[j]
        at == p + 36 + PrefixWidth(At(bytes, p + 36))
        L  == Len(in.script_sig.bytes)
    IN  /\ InputEnd(j) <= Len(bytes)
        /\ in.previous_output.txid.raw = Slice(bytes, p, p + 32)
        /\ in.previous_output.vout =
              <<At(bytes, p + 35), At(bytes, p + 34), At(bytes, p + 33), At(bytes, p + 32)>>
        /\ in.script_sig.bytes = Slice(bytes, at, at + L)
        /\ in.sequence =
              <<At(bytes, at + L + 3), At(bytes, at + L + 2),
                At(bytes, at + L + 1), At(bytes, at + L)>>

\* BitcoinTransaction::from_bytes has read the version and a count
CountDecoded ==
    /\ decoder = "BitcoinTransaction" /\ pc \in {"loop", "done"}
    /\ Len(bytes) >= 4
    /\ CompactSize_from_bytes(SliceFrom(bytes, 4)).tag = "Ok"

ResumableParsing ==
    (prev # NoValue /\ pc = "done") =>
        /\ result = prev
        /\ (decoder \in AllKinds /\ origin.kind = decoder /\ framed = "" /\ cut = 0) =>
              result = Ok(origin.value, Len(ToBytes(origin.kind, origin.value)))

ResumableParsingWitness ==
    /\ prev # NoValue /\ pc = "done"
    /\ decoder = "Script"
    /\ prev.consumed = 3
    /\ Len(bytes) = 5
    /\ result.tag = "Ok"

\* C10: on every buffer each from_bytes returns Ok(x, n) with n <= len(b) or
\* Err(InsufficientBytes); no index and no slice leaves the buffer.
BoundsSafety ==
    (pc = "done" /\ decoder \in AllKinds) =>
        \/ result.tag = "Ok" /\ result.consumed <= Len(bytes)
        \/ result = Err(InsufficientBytes)

====
